---- MODULE Spec2Model ----
(***************************************************************************)
(* The reminder / follow-up engine of the Sonia plugin                     *)
(* (src/sonia-plugin/index.js) and the cron follow-up processor            *)
(* (src/deploy/sonia-healthcheck-v2.sh), as a state machine over the       *)
(* follow_ups and tasks tables of the SQLite store.                        *)
(*                                                                         *)
(* A text value (message, contact, channel, one line of sqlite3 output) is *)
(* a sequence of atoms; "|" is the column separator and "\n" the row       *)
(* separator of `sqlite3 -separator '|'`.  A remind_at / datetime('now')   *)
(* value is a sequence of character codes, compared as SQLite compares     *)
(* TEXT: code by code.                                                     *)
(***************************************************************************)
EXTENDS Integers, Sequences, FiniteSets, TLC

\* ------------------------------------------------------------------ bounds
MaxTime == 1          \* the clock runs over the hours 0..MaxTime after StartHour
MaxRows == 2          \* follow_ups rows ever inserted
MaxTasks == 1         \* tasks rows ever inserted
MaxJobs == 2          \* jobs waiting in the at(1) queue
MaxCount == 2         \* the history counters saturate here
MaxListed == 52       \* follow_ups rows in the runs that fill a page of the list
MaxLate == 2          \* last value of the clock in the late evening
StartHour == 18       \* hour of day of clock value 0
StartDay == 5         \* day of month of clock value 0

\* --------------------------------------------------------------- constants
SEP == "|"
NL == "\n"
telegram == <<"telegram">>
whatsapp == <<"whatsapp">>
email == <<"email">>
telegram_user == <<"6116923763">>
OtherContact == <<"+971551994544">>
Absent == <<>>        \* an omitted (undefined) or empty argument: both are falsy

Runners == {"r1", "r2"}

Min(a, b) == IF a < b THEN a ELSE b
Bump(n) == Min(n + 1, MaxCount)

\* ------------------------------------------------------------ text helpers
RECURSIVE Split(_, _)
\* String.prototype.split(sep)
Split(s, sep) ==
    IF \A i \in 1..Len(s) : s[i] # sep
    THEN <<s>>
    ELSE LET k == CHOOSE i \in 1..Len(s) :
                      s[i] = sep /\ \A j \in 1..(i - 1) : s[j] # sep
         IN  <<SubSeq(s, 1, k - 1)>> \o Split(SubSeq(s, k + 1, Len(s)), sep)

RECURSIVE Trim(_)
\* String.prototype.trim(): of the atoms used here only "\n" is white space
Trim(s) ==
    IF s = <<>> THEN s
    ELSE IF Head(s) = NL THEN Trim(Tail(s))
    ELSE IF s[Len(s)] = NL THEN Trim(SubSeq(s, 1, Len(s) - 1))
    ELSE s

\* Array.prototype.filter(Boolean) on an array of strings: drops the empty ones
FilterBoolean(ss) == SelectSeq(ss, LAMBDA x : x # <<>>)

RECURSIVE JoinLines(_)
JoinLines(ss) ==
    IF ss = <<>> THEN <<>>
    ELSE IF Len(ss) = 1 THEN ss[1]
    ELSE ss[1] \o <<NL>> \o JoinLines(Tail(ss))

\* ------------------------------------------------------------- time as TEXT
Digit(d) == 48 + d
TwoDigits(n) == <<Digit(n \div 10), Digit(n % 10)>>
HourOf(t) == (StartHour + t) % 24
DayOf(t) == StartDay + ((StartHour + t) \div 24)
\* "2026-11-DD"
DateText(t) == <<Digit(2), Digit(0), Digit(2), Digit(6), 45,
                 Digit(1), Digit(1), 45>> \o TwoDigits(DayOf(t))
\* "HH:00"
HHMM(t) == TwoDigits(HourOf(t)) \o <<58, Digit(0), Digit(0)>>
\* "YYYY-MM-DD HH:MM", the format toISOString().slice(0,16).replace('T',' ') makes
FullText(t) == DateText(t) \o <<32>> \o HHMM(t)
\* datetime('now'): "YYYY-MM-DD HH:MM:SS"
datetime_now(t) == FullText(t) \o <<58, Digit(0), Digit(0)>>

RECURSIVE TextLeq(_, _)
\* SQLite's <= on two TEXT values (BINARY collation): memcmp, the shorter first
TextLeq(a, b) ==
    IF a = <<>> THEN TRUE
    ELSE IF b = <<>> THEN FALSE
    ELSE IF Head(a) < Head(b) THEN TRUE
    ELSE IF Head(a) > Head(b) THEN FALSE
    ELSE TextLeq(Tail(a), Tail(b))

\* ------------------------------------------------------------------- state
VARIABLES
    now,            \* the clock, in hours after StartHour
    storeUp,        \* whether a sqlite3 command on db_path succeeds
    follow_ups,     \* the follow_ups table: id -> row
    seq_follow_ups, \* sqlite_sequence of follow_ups (AUTOINCREMENT)
    tasks,          \* the tasks table: id -> status
    seq_tasks,      \* sqlite_sequence of tasks
    atq,            \* the jobs queued with at(1)
    pc,             \* per processor run: "idle", "send" or "mark"
    run,            \* per processor run: its local variables
    lastOp,         \* the call that has just returned, with its result
    dueAt,          \* history: id -> the instant the caller asked for
    delivered,      \* history: id -> number of successful deliveries
    attemptRuns,    \* history: id -> number of runs that attempted delivery
    hc,             \* the health check: its position, lists and outcome
    hung            \* whether the external commands hang for now

store == <<follow_ups, seq_follow_ups, tasks, seq_tasks>>
hist == <<dueAt, delivered, attemptRuns>>
procs == <<pc, run>>
vars == <<now, storeUp, follow_ups, seq_follow_ups, tasks, seq_tasks, atq,
          pc, run, lastOp, dueAt, delivered, attemptRuns, hc, hung>>

Ids == 1..MaxRows
NoArgs == [task_id |-> 0, contact |-> Absent, channel |-> Absent,
           message |-> Absent, remind_at |-> Absent, due |-> 0]
IdleRun == [kind |-> "plugin", lines |-> <<>>, i |-> 0, processed |-> 0,
            log |-> <<>>, t0 |-> 0, pre |-> <<>>]
\* no call has just returned
NoOp == [op |-> "", ret |-> "", args |-> NoArgs, rowId |-> 0,
         followUpId |-> <<>>, rows |-> <<>>, run |-> IdleRun]

\* no health check has run: ISSUES="" and FIXED="", nothing sent
IdleCheck == [version |-> 2, step |-> "idle", FIXED |-> <<>>, ISSUES |-> <<>>,
              failed |-> {}, sent |-> <<>>, status |-> 0, results |-> <<>>]

Init ==
    /\ now = 0
    /\ storeUp = TRUE
    /\ follow_ups = <<>>
    /\ seq_follow_ups = 0
    /\ tasks = <<>>
    /\ seq_tasks = 0
    /\ atq = {}
    /\ pc = [p \in Runners |-> "idle"]
    /\ run = [p \in Runners |-> IdleRun]
    /\ lastOp = NoOp
    /\ dueAt = [i \in Ids |-> 0]
    /\ delivered = [i \in Ids |-> 0]
    /\ attemptRuns = [i \in Ids |-> 0]
    /\ hc = IdleCheck
    /\ hung = FALSE

\* the rows of a table, as the set of its ids
RowIds(t) == DOMAIN t
Unsent(t) == {i \in DOMAIN t : t[i].sent = 0}
Quiet == \A p \in Runners : pc[p] = "idle"

\* ----------------------------------------------------------- the store
\* SELECT last_insert_rowid() run by a new sqlite3 process: a connection that
\* has inserted nothing answers 0
last_insert_rowid == 0

\* an upsert keyed on the task: a second reminder of a task replaces the first
InsertOrReplaceByTask(t, id, a, followContact, followChannel) ==
    LET same == {i \in DOMAIN t : a.task_id # 0 /\ t[i].task_id = a.task_id}
        n == IF same = {} THEN id ELSE CHOOSE i \in same : TRUE
        row == [task_id |-> a.task_id, contact |-> followContact,
                channel |-> followChannel, message |-> a.message,
                remind_at |-> a.remind_at, sent |-> 0]
    IN  [i \in DOMAIN t \cup {n} |-> IF i = n THEN row ELSE t[i]]

\* INSERT INTO follow_ups (task_id, contact, channel, message, remind_at);
\* sent takes its DEFAULT 0, id the next AUTOINCREMENT value
InsertFollowUp(t, id, a, followContact, followChannel) ==
    (id :> [task_id |-> a.task_id, contact |-> followContact,
            channel |-> followChannel, message |-> a.message,
            remind_at |-> a.remind_at, sent |-> 0]) @@ t

\* UPDATE follow_ups SET sent=1 WHERE id=<n>
MarkSent(t, n) ==
    [i \in DOMAIN t |-> IF i = n THEN [t[i] EXCEPT !.sent = 1] ELSE t[i]]

\* a DELETE that also takes the rows of no task
DeleteByTaskOrNone(t, n) ==
    LET keep == {i \in DOMAIN t : t[i].task_id # n /\ t[i].task_id # 0}
    IN  [i \in keep |-> t[i]]
\* DELETE FROM follow_ups WHERE task_id=<n>
DeleteByTask(t, n) ==
    LET keep == {i \in DOMAIN t : t[i].task_id # n}
    IN  [i \in keep |-> t[i]]

\* the id a piece of SQL text "WHERE id=<text>" selects: 0 (no row) when the
\* text is no integer literal
IdOfText(txt) ==
    IF \E n \in 0..MaxRows : txt = <<ToString(n)>>
    THEN CHOOSE n \in 0..MaxRows : txt = <<ToString(n)>>
    ELSE 0

\* ------------------------------------------------------ inputs of the calls
plain == <<"call">>
withSep == <<"a", SEP, "b">>
withNL == <<"a", NL, "b">>
Messages == {plain, withSep, withNL}
\* remind_at as the caller writes it, with the instant the caller means:
\* "YYYY-MM-DD HH:MM", or "HH:MM" for the next time the clock shows HH:MM
Soon == Min(now + 1, MaxTime)
AtNow == [text |-> FullText(now), due |-> now]
AtSoon == [text |-> FullText(Soon), due |-> Soon]
AtSoonHHMM == [text |-> HHMM(Soon), due |-> Soon]
RemindAts == {AtNow, AtSoon} \cup (IF Soon > now THEN {AtSoonHHMM} ELSE {})
Request(m, c, ch, t, r) ==
    [message |-> m, contact |-> c, channel |-> ch, task_id |-> t,
     remind_at |-> r.text, due |-> r.due]
\* the calls made: the message, the contact and channel (omitted: the
\* defaults), the task (0: none) and the time
Requests ==
    { Request(plain, Absent, Absent, 0, r) : r \in RemindAts }
        \cup { Request(withNL, Absent, Absent, 0, AtNow),
               Request(withSep, OtherContact, whatsapp, 1, AtNow) }

\* a value that may be undefined
Undefined == [def |-> FALSE, val |-> <<>>]
Def(v) == [def |-> TRUE, val |-> v]

\* ------------------------------------------------------------ set_follow_up
InvalidIfNoRemindAt(a) == a.remind_at = Absent
\* if (!remind_at || !message)
Invalid(a) == a.remind_at = Absent \/ a.message = Absent

\* channel || 'telegram', contact || CONFIG.telegram_user
FollowChannel(a) == IF a.channel = Absent THEN telegram ELSE a.channel
FollowContact(a) == IF a.contact = Absent THEN telegram_user ELSE a.contact

\* sonia_set_follow_up up to the at(1) command: the values the call computes
SetFollowUpInsert(a) ==
    LET invalid == Invalid(a)
        followChannel == FollowChannel(a)
        followContact == FollowContact(a)
        inserted == ~invalid /\ storeUp
        newId == seq_follow_ups + 1
        idOut == IF storeUp THEN <<ToString(last_insert_rowid)>> ELSE <<>>
        followUpId == IF idOut = <<>> THEN <<"0">> ELSE idOut
    IN  [invalid |-> invalid,
         job |-> [channel |-> followChannel, contact |-> followContact,
                  message |-> a.message, markId |-> followUpId,
                  fu |-> IF inserted THEN newId ELSE 0, fireAt |-> a.due],
         ret |-> IF invalid THEN "ValidationError" ELSE "Follow-up Set",
         rowId |-> IF inserted THEN newId ELSE 0,
         followUpId |-> IF invalid THEN <<>> ELSE followUpId,
         table |-> IF inserted
                   THEN InsertFollowUp(follow_ups, newId, a, followContact,
                                       followChannel)
                   ELSE follow_ups,
         seq |-> IF inserted THEN newId ELSE seq_follow_ups,
         dueAt |-> IF inserted /\ newId \in Ids
                   THEN [dueAt EXCEPT ![newId] = a.due] ELSE dueAt]

\* a registration that takes the row back and fails the call when at(1)
\* refuses the job
RegisterAtOrUndo(c, atOk) ==
    IF c.invalid \/ atOk
    THEN [ret |-> c.ret, rowId |-> c.rowId, followUpId |-> c.followUpId,
          table |-> c.table, seq |-> c.seq,
          atq |-> IF ~c.invalid /\ atOk THEN atq \cup {c.job} ELSE atq,
          atOk |-> ~c.invalid /\ atOk, dueAt |-> c.dueAt]
    ELSE [ret |-> "TriggerError", rowId |-> 0, followUpId |-> c.followUpId,
          table |-> follow_ups, seq |-> c.seq, atq |-> atq, atOk |-> FALSE,
          dueAt |-> dueAt]
\* echo '${cronJob}' | at ${remind_at} 2>/dev/null || true, its result unused;
\* atOk is whether at(1) accepted the job
RegisterAt(c, atOk) ==
    [ret |-> c.ret, rowId |-> c.rowId, followUpId |-> c.followUpId,
     table |-> c.table, seq |-> c.seq,
     atq |-> IF ~c.invalid /\ atOk THEN atq \cup {c.job} ELSE atq,
     atOk |-> ~c.invalid /\ atOk, dueAt |-> c.dueAt]

\* sonia_set_follow_up: the values the call computes
SetFollowUpCalc(a, atOk) == RegisterAt(SetFollowUpInsert(a), atOk)

set_follow_up(a, atOk) ==
    LET c == SetFollowUpCalc(a, atOk)
    IN  /\ follow_ups' = c.table
        /\ seq_follow_ups' = c.seq
        /\ atq' = c.atq
        /\ dueAt' = c.dueAt
        /\ lastOp' = [NoOp EXCEPT !.op = "set_follow_up", !.ret = c.ret,
                                  !.args = a, !.rowId = c.rowId,
                                  !.followUpId = c.followUpId]
        /\ UNCHANGED <<hung, hc, now, storeUp, tasks, seq_tasks, procs, delivered,
                       attemptRuns>>

\* a call with message and remind_at; AtOutcomes: whether at(1) takes the job
SetFollowUpWith(AtOutcomes) ==
    \E q \in Requests, atOk \in AtOutcomes :
        /\ seq_follow_ups < MaxRows
        /\ atOk => Cardinality(atq) < MaxJobs
        /\ set_follow_up(q, atOk)

SetFollowUp == SetFollowUpWith(BOOLEAN)
\* the calls of a caller that fills the table, alternating between two times
SetFollowUpBulk ==
    /\ seq_follow_ups < MaxListed
    /\ set_follow_up(Request(plain, Absent, Absent, 0,
                             IF seq_follow_ups % 2 = 0 THEN AtNow ELSE AtSoon),
                     FALSE)
\* calls of the early evening for now and for a time of day after 20:00,
\* written "HH:MM"
AtLate == [text |-> HHMM(MaxLate), due |-> MaxLate]
SetFollowUpLate ==
    \E r \in {AtNow, AtLate} :
        /\ seq_follow_ups < MaxRows
        /\ set_follow_up(Request(plain, Absent, Absent, 0, r), FALSE)
\* calls that differ in contact and channel only
ChannelRequests ==
    {Request(plain, c, ch, 0, AtNow) :
        c \in {Absent, OtherContact}, ch \in {Absent, whatsapp, email}}
SetFollowUpChannels ==
    \E q \in ChannelRequests :
        /\ seq_follow_ups < MaxRows
        /\ set_follow_up(q, FALSE)
\* the same on a host where at(1) takes no job
SetFollowUpNoAt == SetFollowUpWith({FALSE})

\* a call that leaves out the message, remind_at, or both
SetFollowUpMissing ==
    \E m \in {plain, Absent}, r \in RemindAts \cup {[text |-> Absent, due |-> 0]},
       atOk \in BOOLEAN :
        /\ m = Absent \/ r.text = Absent
        /\ set_follow_up([NoArgs EXCEPT !.message = m, !.remind_at = r.text,
                                        !.due = r.due], atOk)

\* ---------------------------------------------------------------- remind_me
\* in_minutes values a caller passes; the clock of the model counts hours
InMinutes == {0, 60}
RemindArgs(m, n, t) == [message |-> m, in_minutes |-> n, at_time |-> t]

\* a reminder time chosen when neither argument gives one
RemindAtOrNow(a) ==
    IF a.in_minutes.def /\ a.in_minutes.val # 0
    THEN Def([text |-> FullText(now + a.in_minutes.val \div 60),
              due |-> now + a.in_minutes.val \div 60])
    ELSE IF a.at_time.text # Absent THEN Def(a.at_time)
    ELSE Def(AtNow)
\* if (in_minutes) ... else if (at_time) ... else return the error
RemindAt(a) ==
    IF a.in_minutes.def /\ a.in_minutes.val # 0
    THEN Def([text |-> FullText(now + a.in_minutes.val \div 60),
              due |-> now + a.in_minutes.val \div 60])
    ELSE IF a.at_time.text # Absent THEN Def(a.at_time)
    ELSE Undefined

\* sonia_remind_me: its own two checks, then sonia_set_follow_up
remind_me(a, atOk) ==
    LET remindAt == RemindAt(a)
    IN  IF a.message = Absent \/ ~remindAt.def
        THEN /\ lastOp' = [NoOp EXCEPT !.op = "remind_me",
                                       !.ret = "ValidationError", !.args = a]
             /\ UNCHANGED <<follow_ups, seq_follow_ups, atq, dueAt>>
        ELSE LET q == [NoArgs EXCEPT
                          !.message = <<"[bell] Reminder: ">> \o a.message,
                          !.remind_at = remindAt.val.text,
                          !.due = remindAt.val.due,
                          !.channel = telegram]
                 c == SetFollowUpCalc(q, atOk)
             IN  /\ seq_follow_ups < MaxRows
                 /\ atOk => Cardinality(atq) < MaxJobs
                 /\ follow_ups' = c.table
                 /\ seq_follow_ups' = c.seq
                 /\ atq' = c.atq
                 /\ dueAt' = c.dueAt
                 /\ lastOp' = [NoOp EXCEPT !.op = "remind_me", !.ret = c.ret,
                                           !.args = a, !.rowId = c.rowId,
                                           !.followUpId = c.followUpId]

RemindMeWith(AtOutcomes) ==
    \E m \in {plain, Absent},
       n \in {Undefined} \cup {Def(k) : k \in InMinutes},
       t \in {AtNow, [text |-> Absent, due |-> 0]},
       atOk \in AtOutcomes :
        /\ remind_me(RemindArgs(m, n, t), atOk)
        /\ UNCHANGED <<hung, hc, now, storeUp, tasks, seq_tasks, procs, delivered,
                       attemptRuns>>

RemindMe == RemindMeWith(BOOLEAN)
RemindMeNoAt == RemindMeWith({FALSE})

\* ----------------------------------------------------------- list_follow_ups
PageLimit == 50
RECURSIVE OrderByRowid(_, _)
OrderByRowid(t, S) ==
    IF S = {} THEN <<>>
    ELSE LET first == CHOOSE i \in S : \A j \in S : i <= j
         IN  <<first>> \o OrderByRowid(t, S \ {first})
\* ORDER BY remind_at ASC over a set of ids: ascending TEXT, equal values in
\* rowid order
RECURSIVE OrderByRemindAt(_, _)
OrderByRemindAt(t, S) ==
    IF S = {} THEN <<>>
    ELSE LET first == CHOOSE i \in S : \A j \in S :
                 \/ ~TextLeq(t[j].remind_at, t[i].remind_at)
                 \/ (TextLeq(t[i].remind_at, t[j].remind_at) /\ i <= j)
         IN  <<first>> \o OrderByRemindAt(t, S \ {first})

\* LIMIT n
Limit(q, n) == IF Len(q) <= n THEN q ELSE SubSeq(q, 1, n)

ListWhereAll(t, include_sent) == DOMAIN t
\* WHERE ${include_sent ? '1=1' : 'sent=0'}
ListWhere(t, include_sent) == IF include_sent THEN DOMAIN t ELSE Unsent(t)

\* SELECT id, message, remind_at, channel, sent FROM follow_ups WHERE ...
\*   ORDER BY remind_at ASC LIMIT 50
ListQuery(include_sent) ==
    LET S == ListWhere(follow_ups, include_sent)
        q == Limit(OrderByRemindAt(follow_ups, S), PageLimit)
    IN  [k \in 1..Len(q) |->
            [id |-> q[k], message |-> follow_ups[q[k]].message,
             remind_at |-> follow_ups[q[k]].remind_at,
             channel |-> follow_ups[q[k]].channel,
             sent |-> follow_ups[q[k]].sent]]

\* sonia_list_follow_ups: the rows it shows; none when the command fails or
\* selects nothing
list_follow_ups(include_sent) ==
    IF storeUp THEN ListQuery(include_sent) ELSE <<>>

ListFollowUps ==
    \E include_sent \in BOOLEAN :
        LET rows == list_follow_ups(include_sent)
        IN  /\ lastOp' = [NoOp EXCEPT
                    !.op = "list_follow_ups",
                    !.ret = IF rows = <<>> THEN "No follow-ups scheduled"
                            ELSE "Follow-ups",
                    !.args = [include_sent |-> include_sent],
                    !.rows = rows]
            /\ UNCHANGED <<hung, hc, now, storeUp, store, atq, procs, hist>>

\* ------------------------------------------------------ external commands
DefaultTimeout == 30000

\* runCommand(cmd, timeout = 30000): execSync under the timeout; a command
\* that fails, or that is killed when the timeout expires, makes execSync
\* throw, and the catch answers success: false. Without a timeout a command
\* that hangs never returns.
runCommand(ok, hangs, timeout) ==
    [returns |-> ~hangs \/ timeout > 0, success |-> ok /\ ~hangs]

\* a command of a processor: the plugin's go through runCommand with the
\* default timeout, the shell script's run bare
Command(kind, ok, hangs) ==
    IF kind = "plugin" THEN runCommand(ok, hangs, DefaultTimeout)
    ELSE [returns |-> ~hangs, success |-> ok /\ ~hangs]

\* ------------------------------------------------- the notification sender
Try(ch, target, ok) == [channel |-> ch, target |-> target, ok |-> ok]

\* sendNotification(message, channel = 'telegram'); tgOk and waOk are the
\* outcomes of the two openclaw commands it may run
sendNotification(message, channel, tgOk, waOk) ==
    LET ch == IF channel.def THEN channel.val ELSE telegram
    IN  IF ~message.def
        THEN [threw |-> TRUE, tries |-> <<>>]      \* message.replace of undefined
        ELSE IF ch = telegram /\ tgOk
        THEN [threw |-> FALSE, tries |-> <<Try(telegram, telegram_user, TRUE)>>]
        ELSE IF ch = telegram
        THEN [threw |-> FALSE,
              tries |-> <<Try(telegram, telegram_user, FALSE),
                          Try(whatsapp, Absent, waOk)>>]
        ELSE [threw |-> FALSE, tries |-> <<Try(whatsapp, Absent, waOk)>>]

\* the send of the cron processor's loop body: one command, by channel
ShellSend(contact, channel, ok) ==
    IF channel = telegram THEN <<Try(telegram, contact, ok)>>
    ELSE IF channel = email THEN <<Try(email, contact, ok)>>
    ELSE <<Try(whatsapp, Absent, ok)>>

Delivered(tries) == \E k \in 1..Len(tries) : tries[k].ok

\* ------------------------------------------------- process_due_follow_ups
RECURSIVE RowidOrder(_)
RowidOrder(S) ==
    IF S = {} THEN <<>>
    ELSE LET m == CHOOSE i \in S : \A j \in S : i <= j
         IN  <<m>> \o RowidOrder(S \ {m})

\* WHERE sent=0 AND remind_at <= datetime('now')
DueIds(t, clock) ==
    {i \in DOMAIN t : t[i].sent = 0 /\ TextLeq(t[i].remind_at, datetime_now(clock))}

\* one row of `sqlite3 -separator '|'`: id|contact|channel|message
FormatRow(i, r) ==
    <<ToString(i)>> \o <<SEP>> \o r.contact \o <<SEP>> \o r.channel
        \o <<SEP>> \o r.message

\* the output of SELECT id, contact, channel, message ...: a table scan, which
\* answers in rowid order
DueOutput(t, clock) ==
    LET q == RowidOrder(DueIds(t, clock))
    IN  JoinLines([k \in 1..Len(q) |-> FormatRow(q[k], t[q[k]])])

\* const [id, contact, channel, message] = line.split('|')
PluginFields(line) ==
    LET f == Split(line, SEP)
        At(k) == IF k <= Len(f) THEN Def(f[k]) ELSE Undefined
    IN  [id |-> At(1), contact |-> At(2), channel |-> At(3), message |-> At(4)]

RECURSIVE JoinSep(_)
JoinSep(ss) ==
    IF ss = <<>> THEN <<>>
    ELSE IF Len(ss) = 1 THEN ss[1]
    ELSE ss[1] \o <<SEP>> \o JoinSep(Tail(ss))

\* IFS='|' read -r id contact channel message: the last name takes the rest
ShellFields(line) ==
    LET f == Split(line, SEP)
        At(k) == IF k <= Len(f) THEN Def(f[k]) ELSE Def(<<>>)
    IN  [id |-> At(1), contact |-> At(2), channel |-> At(3),
         message |-> IF Len(f) >= 4 THEN Def(JoinSep(SubSeq(f, 4, Len(f))))
                     ELSE Def(<<>>)]

Fields(kind, line) ==
    IF kind = "plugin" THEN PluginFields(line) ELSE ShellFields(line)

RECURSIVE StripTrailingNL(_)
\* $(...) drops the newlines that end the output
StripTrailingNL(s) ==
    IF s # <<>> /\ s[Len(s)] = NL THEN StripTrailingNL(SubSeq(s, 1, Len(s) - 1))
    ELSE s

\* runCommand's (result || '').trim(), and FOLLOWUPS=$(sqlite3 ...)
OutputOf(kind, raw) == IF kind = "plugin" THEN Trim(raw) ELSE StripTrailingNL(raw)

\* result.output.split('\n').filter(Boolean), and the lines `while read` sees
LinesOf(kind, out) ==
    IF kind = "plugin" THEN FilterBoolean(Split(out, NL)) ELSE Split(out, NL)

\* what sonia_process_follow_ups returned, with the run that has ended
Returned(r, result) ==
    [NoOp EXCEPT !.op = "process_follow_ups", !.ret = result, !.run = r]

\* the SELECT and the test of its output
Query(p, kind) ==
    \E select \in {Command(kind, storeUp, hung)} :
    \E stdout \in {DueOutput(follow_ups, now)} :
    \E out \in {IF select.success THEN OutputOf(kind, stdout) ELSE <<>>} :
    \E lines \in {LinesOf(kind, out)} :
        LET started == [kind |-> kind, lines |-> lines, i |-> 1,
                        processed |-> 0, log |-> <<>>, t0 |-> now, pre |-> follow_ups]
        IN  /\ pc[p] = "idle"
            /\ select.returns
            /\ IF out = <<>>                     \* if (!result.output)
               THEN /\ UNCHANGED <<pc, run>>
                    /\ lastOp' = Returned([started EXCEPT !.lines = <<>>, !.i = 0],
                                          "No due follow-ups")
               ELSE /\ pc' = [pc EXCEPT ![p] = "send"]
                    /\ run' = [run EXCEPT ![p] = started]
                    /\ lastOp' = NoOp
            /\ UNCHANGED <<hung, hc, now, storeUp, store, atq, hist>>

\* the delivery of the current line
Send(p) ==
    /\ pc[p] = "send"
    /\ Command(run[p].kind, TRUE, hung).returns
    /\ \E tgOk \in BOOLEAN, waOk \in BOOLEAN :
        LET r == run[p]
            f == Fields(r.kind, r.lines[r.i])
            rid == IdOfText(f.id.val)
            tg == Command(r.kind, tgOk, hung).success
            wa == Command(r.kind, waOk, hung).success
            s == IF r.kind = "plugin"
                 THEN sendNotification(f.message, f.channel, tg, wa)
                 ELSE [threw |-> FALSE,
                       tries |-> ShellSend(f.contact.val, f.channel.val, tg)]
            seen == \E k \in 1..Len(r.log) : r.log[k].id = rid
            entry == [id |-> rid, tries |-> s.tries, marked |-> FALSE,
                      timedOut |-> hung]
        IN  IF s.threw
            THEN /\ pc' = [pc EXCEPT ![p] = "idle"]
                 /\ run' = [run EXCEPT ![p] = IdleRun]
                 /\ lastOp' = Returned(r, "TypeError")
                 /\ UNCHANGED <<delivered, attemptRuns>>
            ELSE /\ pc' = [pc EXCEPT ![p] = "mark"]
                 /\ run' = [run EXCEPT ![p].log = Append(r.log, entry)]
                 /\ lastOp' = NoOp
                 /\ delivered' =
                      IF rid \in Ids /\ Delivered(s.tries)
                      THEN [delivered EXCEPT ![rid] = Bump(@)] ELSE delivered
                 /\ attemptRuns' =
                      IF rid \in Ids /\ ~seen
                      THEN [attemptRuns EXCEPT ![rid] = Bump(@)] ELSE attemptRuns
    /\ UNCHANGED <<hung, hc, now, storeUp, store, atq, dueAt>>

\* UPDATE follow_ups SET sent=1 WHERE id=${id}; processed++
Mark(p) ==
    LET r == run[p]
        f == Fields(r.kind, r.lines[r.i])
        rid == IdOfText(f.id.val)
        update == Command(r.kind, storeUp, hung)
        hit == update.success /\ rid \in DOMAIN follow_ups
        after == [r EXCEPT !.processed = r.processed + 1,
                           !.log[Len(r.log)].marked = hit]
    IN  /\ pc[p] = "mark"
        /\ update.returns
        /\ follow_ups' = IF hit THEN MarkSent(follow_ups, rid) ELSE follow_ups
        /\ IF r.i = Len(r.lines)
           THEN /\ pc' = [pc EXCEPT ![p] = "idle"]
                /\ run' = [run EXCEPT ![p] = IdleRun]
                /\ lastOp' = Returned(after, "Processed")
           ELSE /\ pc' = [pc EXCEPT ![p] = "send"]
                /\ run' = [run EXCEPT ![p] = [after EXCEPT !.i = r.i + 1]]
                /\ lastOp' = NoOp
        /\ UNCHANGED <<hung, hc, now, storeUp, seq_follow_ups, tasks, seq_tasks, atq, hist>>

RECURSIVE Marks(_, _, _)
\* the rows whose UPDATE a pass over the lines runs when every command
\* answers: the plugin's loop ends at a line whose send throws, the shell's
\* `while read` goes on to the last line
Marks(kind, lines, t) ==
    IF lines = <<>> THEN {}
    ELSE LET f == Fields(kind, lines[1])
         IN  IF kind = "plugin"
                /\ sendNotification(f.message, f.channel, TRUE, TRUE).threw
             THEN {}
             ELSE ({IdOfText(f.id.val)} \cap DOMAIN t)
                     \cup Marks(kind, Tail(lines), t)

\* the rows a processor of the kind marks on table t at the instant clock
WouldMark(kind, t, clock) ==
    Marks(kind, LinesOf(kind, OutputOf(kind, DueOutput(t, clock))), t)

\* the process dies or is restarted in the middle of a run
Crash(p) ==
    /\ pc[p] # "idle"
    /\ pc' = [pc EXCEPT ![p] = "idle"]
    /\ run' = [run EXCEPT ![p] = IdleRun]
    /\ lastOp' = NoOp
    /\ UNCHANGED <<hung, hc, now, storeUp, store, atq, hist>>

\* -------------------------------------------------------- the at(1) job
\* openclaw message send --channel C --target T --message M
\*   && sqlite3 db "UPDATE follow_ups SET sent=1 WHERE id=<followUpId>"
AtFire ==
    \E j \in atq, ok \in BOOLEAN :
        LET rid == IdOfText(j.markId)
            hit == ok /\ storeUp /\ rid \in DOMAIN follow_ups
        IN  /\ j.fireAt <= now
            /\ atq' = atq \ {j}
            /\ follow_ups' = IF hit THEN MarkSent(follow_ups, rid) ELSE follow_ups
            /\ delivered' = IF ok /\ j.fu \in Ids
                            THEN [delivered EXCEPT ![j.fu] = Bump(@)]
                            ELSE delivered
            /\ lastOp' = NoOp
            /\ UNCHANGED <<hung, hc, now, storeUp, seq_follow_ups, tasks, seq_tasks, procs,
                           dueAt, attemptRuns>>

\* ------------------------------------------------------------------ tasks
\* sonia_create_task, with or without a reminder
CreateTask ==
    \E withReminder \in BOOLEAN, atOk \in BOOLEAN :
        LET title == <<"call">>
            r == AtNow
            taskId == IF storeUp THEN <<ToString(last_insert_rowid)>> ELSE <<"0">>
            a == [NoArgs EXCEPT !.task_id = IdOfText(taskId),  \* parseInt(taskId)
                                !.remind_at = r.text, !.due = r.due,
                                !.message = <<"Reminder: ">> \o title]
            c == SetFollowUpCalc(a, atOk)
        IN  /\ seq_tasks < MaxTasks
            /\ withReminder => seq_follow_ups < MaxRows
            /\ atOk => Cardinality(atq) < MaxJobs
            /\ ~withReminder => ~atOk
            /\ tasks' = IF storeUp THEN (seq_tasks + 1 :> "pending") @@ tasks
                        ELSE tasks
            /\ seq_tasks' = IF storeUp THEN seq_tasks + 1 ELSE seq_tasks
            /\ IF withReminder
               THEN /\ follow_ups' = c.table
                    /\ seq_follow_ups' = c.seq
                    /\ atq' = c.atq
                    /\ dueAt' = c.dueAt
               ELSE UNCHANGED <<follow_ups, seq_follow_ups, atq, dueAt>>
            /\ lastOp' = [NoOp EXCEPT
                              !.op = "create_task", !.ret = "Task Created",
                              !.followUpId = taskId,
                              !.rowId = IF withReminder THEN c.rowId ELSE 0]
            /\ UNCHANGED <<hung, hc, now, storeUp, procs, delivered, attemptRuns>>

\* sonia_update_task
UpdateTask ==
    \E t \in 1..MaxTasks, status \in {"pending", "completed"} :
        /\ tasks' = IF storeUp /\ t \in DOMAIN tasks
                    THEN [tasks EXCEPT ![t] = status] ELSE tasks
        /\ lastOp' = NoOp
        /\ UNCHANGED <<hung, hc, now, storeUp, follow_ups, seq_follow_ups, seq_tasks, atq,
                       procs, hist>>

\* sonia_delete_task
DeleteTask ==
    \E t \in 1..MaxTasks :
        /\ tasks' = IF storeUp THEN [i \in DOMAIN tasks \ {t} |-> tasks[i]]
                    ELSE tasks
        /\ follow_ups' = IF storeUp THEN DeleteByTask(follow_ups, t) ELSE follow_ups
        /\ lastOp' = [NoOp EXCEPT !.op = "delete_task", !.ret = "Task Deleted",
                                  !.args = [task_id |-> t]]
        /\ UNCHANGED <<hung, hc, now, storeUp, seq_follow_ups, seq_tasks, atq, procs, hist>>

\* ------------------------------------------------------------ health check
\* sonia-healthcheck.sh (version 1) and sonia-healthcheck-v2.sh (version 2)
Versions == {1, 2}
DiskLimit == 90
MemLimit == 100
DiskPcts == {DiskLimit, DiskLimit + 1}
MemFrees == {MemLimit - 1, MemLimit}

\* everything but the health check
engine == <<now, storeUp, follow_ups, seq_follow_ups, tasks, seq_tasks, atq,
            pc, run, lastOp, dueAt, delivered, attemptRuns, hung>>

\* the order of version 1, which has no Telegram section, in both versions
AfterAsVersion1(v, step) ==
    CASE step = "docker" -> "chrome"
      [] step = "chrome" -> "openclaw"
      [] step = "openclaw" -> "whatsapp"
      [] step = "telegram" -> "whatsapp"
      [] step = "whatsapp" -> "email"
      [] step = "email" -> "disk"
      [] step = "disk" -> "memory"
      [] step = "memory" -> "api"
      [] step = "api" -> "nginx"
      [] step = "nginx" -> IF v = 2 THEN "notify" ELSE "exit"
      [] step = "notify" -> "exit"
      [] step = "exit" -> "done"

\* the numbered sections of the script: # 1. Docker ... # 10. Nginx
Checklist(v) ==
    IF v = 2
    THEN <<"docker", "chrome", "openclaw", "telegram", "whatsapp", "email",
           "disk", "memory", "api", "nginx">>
    ELSE <<"docker", "chrome", "openclaw", "whatsapp", "email",
           "disk", "memory", "api", "nginx">>

\* the entry a section writes when its probe fails
ItemOf(probe) ==
    CASE probe = "docker" -> " Docker;"
      [] probe = "chrome" -> " ChromeCDP;"
      [] probe = "openclaw" -> " OpenClaw;"
      [] probe = "telegram" -> " Telegram;"
      [] probe = "whatsapp" -> " WhatsApp-disconnected;"
      [] probe = "email" -> " Email-IMAP;"
      [] probe = "disk" -> " Disk-cleanup;"
      [] probe = "memory" -> " Low-memory;"
      [] probe = "api" -> " EmyAPI;"
      [] probe = "nginx" -> " Nginx;"

\* the sections that run no command when their probe fails
NoRemediation == {"telegram", "whatsapp", "email", "memory"}

\* the order of the sections of the script
After(v, step) ==
    CASE step = "docker" -> "chrome"
      [] step = "chrome" -> "openclaw"
      [] step = "openclaw" -> IF v = 2 THEN "telegram" ELSE "whatsapp"
      [] step = "telegram" -> "whatsapp"
      [] step = "whatsapp" -> "email"
      [] step = "email" -> "disk"
      [] step = "disk" -> "memory"
      [] step = "memory" -> "api"
      [] step = "api" -> "nginx"
      [] step = "nginx" -> IF v = 2 THEN "notify" ELSE "exit"
      [] step = "notify" -> "exit"
      [] step = "exit" -> "done"

\* the script goes on to its next section
Advance(h) == [h EXCEPT !.step = After(h.version, h.step)]
\* what a section did: the probe it evaluated, what the probe found, and
\* whether a remediation command was run
Result(h, healthy, command) ==
    [probe |-> h.step, healthy |-> healthy, command |-> command]

\* [OK], [NOT INSTALLED]
Healthy(h) == [Advance(h) EXCEPT !.results = Append(@, Result(h, TRUE, FALSE))]
\* a section that puts what it found on both lists
IssueAlsoFixed(h, item) ==
    [Advance(h) EXCEPT !.FIXED = Append(@, item),
                       !.ISSUES = Append(@, item),
                       !.results = Append(@, Result(h, FALSE, FALSE))]
\* [FIXING]: the command runs, then FIXED="$FIXED item"; remOk is whether the
\* command succeeded
Fixing(h, item, remOk) ==
    [Advance(h) EXCEPT !.FIXED = Append(@, item),
                       !.failed = IF remOk THEN @ ELSE @ \cup {item},
                       !.results = Append(@, Result(h, FALSE, TRUE))]
\* [CHECK], [NEEDS ATTENTION], [LOW]: ISSUES="$ISSUES item"
Issue(h, item) ==
    [Advance(h) EXCEPT !.ISSUES = Append(@, item),
                       !.results = Append(@, Result(h, FALSE, FALSE))]

HealthStart ==
    /\ hc.step \in {"idle", "done"}
    /\ \E v \in Versions : hc' = [IdleCheck EXCEPT !.version = v, !.step = "docker"]
    /\ UNCHANGED engine

Docker ==
    /\ hc.step = "docker"
    /\ \E unhealthy \in BOOLEAN, remOk \in BOOLEAN :
          hc' = IF unhealthy THEN Fixing(hc, " Docker;", remOk) ELSE Healthy(hc)
    /\ UNCHANGED engine

ChromeCDP ==
    /\ hc.step = "chrome"
    /\ \E browser \in BOOLEAN, remOk \in BOOLEAN :
          hc' = IF browser THEN Healthy(hc) ELSE Fixing(hc, " ChromeCDP;", remOk)
    /\ UNCHANGED engine

OpenClaw ==
    /\ hc.step = "openclaw"
    /\ \E running \in BOOLEAN, remOk \in BOOLEAN :
          hc' = IF running THEN Healthy(hc) ELSE Fixing(hc, " OpenClaw;", remOk)
    /\ UNCHANGED engine

TelegramProbe ==
    /\ hc.step = "telegram"
    /\ \E enabled \in BOOLEAN :
          hc' = IF enabled THEN Healthy(hc) ELSE Issue(hc, " Telegram;")
    /\ UNCHANGED engine

WhatsAppProbe ==
    /\ hc.step = "whatsapp"
    /\ \E connected \in BOOLEAN :
          hc' = IF connected THEN Healthy(hc)
                ELSE Issue(hc, " WhatsApp-disconnected;")
    /\ UNCHANGED engine

EmailProbe ==
    /\ hc.step = "email"
    /\ \E listed \in BOOLEAN :
          hc' = IF listed THEN Healthy(hc) ELSE Issue(hc, " Email-IMAP;")
    /\ UNCHANGED engine

\* two commands: docker system prune, journalctl --vacuum-time
Disk ==
    /\ hc.step = "disk"
    /\ \E DISK_PCT \in DiskPcts, pruneOk \in BOOLEAN, vacuumOk \in BOOLEAN :
          hc' = IF DISK_PCT > DiskLimit
                THEN Fixing(hc, " Disk-cleanup;", pruneOk /\ vacuumOk)
                ELSE Healthy(hc)
    /\ UNCHANGED engine

Memory ==
    /\ hc.step = "memory"
    /\ \E MEM_FREE \in MemFrees :
          hc' = IF MEM_FREE < MemLimit THEN Issue(hc, " Low-memory;")
                ELSE Healthy(hc)
    /\ UNCHANGED engine

EmyAPI ==
    /\ hc.step = "api"
    /\ \E alive \in BOOLEAN, remOk \in BOOLEAN :
          hc' = IF alive THEN Healthy(hc) ELSE Fixing(hc, " EmyAPI;", remOk)
    /\ UNCHANGED engine

Nginx ==
    /\ hc.step = "nginx"
    /\ \E active \in BOOLEAN, enabled \in BOOLEAN, remOk \in BOOLEAN :
          hc' = IF active THEN Healthy(hc)
                ELSE IF enabled THEN Fixing(hc, " Nginx;", remOk)
                ELSE Healthy(hc)                        \* [NOT INSTALLED]
    /\ UNCHANGED engine

\* notify(): telegram first, whatsapp when that command fails
notify(tgOk, waOk) ==
    IF tgOk THEN <<Try(telegram, telegram_user, TRUE)>>
    ELSE <<Try(telegram, telegram_user, FALSE), Try(whatsapp, Absent, waOk)>>

ShouldNotifyOnIssues(F, I) == I # <<>>
\* [ -n "$FIXED" ] || [ -n "$ISSUES" ]
ShouldNotify(F, I) == F # <<>> \/ I # <<>>

\* MSG
Report(F, I) ==
    <<"Sonia Health Report">>
    \o (IF F # <<>> THEN <<" | Auto-fixed: ">> \o F ELSE <<>>)
    \o (IF I # <<>> THEN <<" | Needs attention: ">> \o I ELSE <<>>)

Summary ==
    /\ hc.step = "notify"
    /\ \E tgOk \in BOOLEAN, waOk \in BOOLEAN :
          hc' = IF ShouldNotify(hc.FIXED, hc.ISSUES)
                THEN [hc EXCEPT
                         !.sent = Append(@, [msg |-> Report(hc.FIXED, hc.ISSUES),
                                             tries |-> notify(tgOk, waOk)]),
                         !.step = After(hc.version, hc.step)]
                ELSE Advance(hc)
    /\ UNCHANGED engine

ExitStatusAnyFinding(F, I) == IF F # <<>> \/ I # <<>> THEN 1 ELSE 0
\* exit 1 when ISSUES is not empty, exit 0 otherwise
ExitStatus(F, I) == IF I # <<>> THEN 1 ELSE 0

Exit ==
    /\ hc.step = "exit"
    /\ hc' = [hc EXCEPT !.status = ExitStatus(hc.FIXED, hc.ISSUES),
                        !.step = After(hc.version, hc.step)]
    /\ UNCHANGED engine

HealthCheck ==
    \/ HealthStart
    \/ Docker
    \/ ChromeCDP
    \/ OpenClaw
    \/ TelegramProbe
    \/ WhatsAppProbe
    \/ EmailProbe
    \/ Disk
    \/ Memory
    \/ EmyAPI
    \/ Nginx
    \/ Summary
    \/ Exit

\* ------------------------------------------------------------ environment
Tick ==
    /\ now < MaxTime
    /\ now' = now + 1
    /\ lastOp' = NoOp
    /\ UNCHANGED <<hung, hc, storeUp, store, atq, procs, hist>>

\* the clock of an evening that goes on past 20:00
TickLate ==
    /\ now < MaxLate
    /\ now' = now + 1
    /\ lastOp' = NoOp
    /\ UNCHANGED <<hung, hc, storeUp, store, atq, procs, hist>>

StoreDown ==
    /\ storeUp
    /\ storeUp' = FALSE
    /\ lastOp' = NoOp
    /\ UNCHANGED <<hung, hc, now, store, atq, procs, hist>>

StoreBack ==
    /\ ~storeUp
    /\ storeUp' = TRUE
    /\ lastOp' = NoOp
    /\ UNCHANGED <<hung, hc, now, store, atq, procs, hist>>

\* the gateway and the store stop answering: a command started now hangs
Hang ==
    /\ ~hung
    /\ hung' = TRUE
    /\ lastOp' = NoOp
    /\ UNCHANGED <<hc, now, storeUp, store, atq, procs, hist>>

Unhang ==
    /\ hung
    /\ hung' = FALSE
    /\ lastOp' = NoOp
    /\ UNCHANGED <<hc, now, storeUp, store, atq, procs, hist>>

\* ---------------------------------------------------------- specifications
Process(p) == Query(p, "plugin") \/ Send(p) \/ Mark(p)
ShellProcess(p) == Query(p, "shell") \/ Send(p) \/ Mark(p)

\* everything: the tool calls, the at(1) jobs, a plugin run and a cron run of
\* the shell processor side by side, crashes, a store that comes and goes
Next ==
    \/ SetFollowUp
    \/ SetFollowUpMissing
    \/ RemindMe
    \/ ListFollowUps
    \/ CreateTask
    \/ UpdateTask
    \/ DeleteTask
    \/ AtFire
    \/ Tick
    \/ StoreDown
    \/ StoreBack
    \/ Process("r1")
    \/ ShellProcess("r2")
    \/ HealthCheck
    \/ \E p \in Runners : Crash(p)

Spec == Init /\ [][Next]_vars

\* runs of process_due_follow_ups one after the other, each to its end, on a
\* host without at(1) and with a store that stays up
NextRun ==
    \/ Quiet /\ SetFollowUpNoAt
    \/ Quiet /\ Tick
    \/ Process("r1")

SpecRun == Init /\ [][NextRun]_vars

\* the same with a store that may fail at any command
NextSeq ==
    \/ Quiet /\ SetFollowUpNoAt
    \/ Quiet /\ Tick
    \/ StoreDown
    \/ StoreBack
    \/ Process("r1")

SpecSeq == Init /\ [][NextSeq]_vars

\* runs one after the other, with at(1) taking the jobs
NextAt ==
    \/ Quiet /\ SetFollowUp
    \/ Quiet /\ Tick
    \/ Quiet /\ AtFire
    \/ Process("r1")

SpecAt == Init /\ [][NextAt]_vars

\* runs one after the other that a crash may end early
NextCrash ==
    \/ Quiet /\ SetFollowUpNoAt
    \/ Quiet /\ Tick
    \/ Process("r1")
    \/ Crash("r1")

SpecCrash == Init /\ [][NextCrash]_vars

\* two runs of process_due_follow_ups side by side
NextOverlap ==
    \/ Quiet /\ SetFollowUpNoAt
    \/ Quiet /\ Tick
    \/ \E p \in Runners : Process(p)

SpecOverlap == Init /\ [][NextOverlap]_vars

\* the tool calls of the follow-up engine, between runs, on a store that
\* comes and goes; at(1) takes no job of a valid call
NextCalls ==
    \/ Quiet /\ SetFollowUpNoAt
    \/ Quiet /\ SetFollowUpMissing
    \/ Quiet /\ ListFollowUps
    \/ Quiet /\ Tick
    \/ Quiet /\ StoreDown
    \/ Quiet /\ StoreBack
    \/ Process("r1")

SpecCalls == Init /\ [][NextCalls]_vars

\* runs of the health check, one after the other
NextHealth ==
    \/ HealthStart
    \/ Docker
    \/ ChromeCDP
    \/ OpenClaw
    \/ TelegramProbe
    \/ WhatsAppProbe
    \/ EmailProbe
    \/ Disk
    \/ Memory
    \/ EmyAPI
    \/ Nginx
    \/ Summary
    \/ Exit

SpecHealth == Init /\ [][NextHealth]_vars

\* runs over follow-ups of every channel and contact
NextChannels ==
    \/ Quiet /\ SetFollowUpChannels
    \/ Process("r1")

SpecChannels == Init /\ [][NextChannels]_vars

\* a table that grows past a page of the list: runs while it is small, the
\* list asked for while it is small and once it holds a page
NextList ==
    \/ Quiet /\ SetFollowUpBulk
    \/ Quiet /\ (seq_follow_ups <= MaxRows \/ seq_follow_ups >= PageLimit)
             /\ ListFollowUps
    \/ seq_follow_ups <= MaxRows /\ Process("r1")

SpecList == Init /\ [][NextList]_vars

\* remind_me between runs
NextRemind ==
    \/ Quiet /\ RemindMeNoAt
    \/ Quiet /\ Tick
    \/ Process("r1")

SpecRemind == Init /\ [][NextRemind]_vars

\* every operation that writes the store, one at a time
NextOps ==
    \/ Quiet /\ SetFollowUp
    \/ Quiet /\ CreateTask
    \/ Quiet /\ UpdateTask
    \/ Quiet /\ DeleteTask
    \/ Quiet /\ AtFire
    \/ Quiet /\ Tick
    \/ Process("r1")
    \/ ShellProcess("r1")

SpecOps == Init /\ [][NextOps]_vars

\* rows that fall due, then runs of the plugin's processor while the external
\* commands hang and recover
NextHang ==
    \/ Quiet /\ ~hung /\ SetFollowUpNoAt
    \/ Hang
    \/ Unhang
    \/ Process("r1")
SpecHang == Init /\ [][NextHang]_vars

\* runs of the plugin's processor and of the cron script, one after the other
NextBoth ==
    \/ Quiet /\ SetFollowUpNoAt
    \/ Quiet /\ Tick
    \/ Process("r1")
    \/ ShellProcess("r1")
SpecBoth == Init /\ [][NextBoth]_vars

\* a reachable store, an evening that goes on past 20:00, and the processor
\* called again and again: cron starts it every period, so a run that can
\* take a step does take it
NextLive ==
    \/ Quiet /\ SetFollowUpLate
    \/ Quiet /\ TickLate
    \/ Process("r1")
SpecLive == Init /\ [][NextLive]_vars /\ WF_vars(Process("r1"))

\* ------------------------------------------------------------------ claims

\* C3: a follow-up whose sent flag is 1 keeps it at 1 across every step of
\* every operation (set_follow_up, a plugin or shell processor run, an at(1)
\* job, task create, update and delete): no step writes sent back to 0.
C3_SentNeverReset ==
    [][\A i \in DOMAIN follow_ups \cap DOMAIN follow_ups' :
          follow_ups[i].sent = 1 => follow_ups'[i].sent = 1]_vars

\* a sent row is in the store, a second row has been inserted and marked
\* after it, and a task has been deleted
C3_Witness ==
    /\ seq_follow_ups = MaxRows
    /\ \E i \in DOMAIN follow_ups : follow_ups[i].sent = 1 /\ i < seq_follow_ups
    /\ seq_tasks > 0 /\ tasks = <<>>
    /\ lastOp.op = "process_follow_ups" /\ lastOp.ret = "Processed"

\* C9: set_follow_up without a message or without remind_at returns the
\* validation error and changes nothing: no row, no generated id, no at(1) job.
C9_MissingArgsRejected ==
    [][SetFollowUpMissing =>
          /\ lastOp'.ret = "ValidationError"
          /\ follow_ups' = follow_ups
          /\ seq_follow_ups' = seq_follow_ups
          /\ atq' = atq]_vars

\* a call without a message has just been rejected on a store that holds a row
C9_Witness ==
    /\ lastOp.op = "set_follow_up"
    /\ lastOp.args.message = Absent
    /\ lastOp.args.remind_at # Absent
    /\ lastOp.ret = "ValidationError"
    /\ follow_ups # <<>>

\* C10: right after a set_follow_up that inserted its row into a store with no
\* other unsent follow-up, list_follow_ups(include_sent=false) on the reachable
\* store shows exactly that row: its id, the message and remind_at given,
\* sent = 0, and, with contact and channel omitted, the channel telegram, the
\* stored contact being CONFIG.telegram_user.
C10_ListShowsNewRow ==
    (/\ lastOp.op = "set_follow_up"
     /\ lastOp.rowId # 0
     /\ storeUp
     /\ Unsent(follow_ups) \ {lastOp.rowId} = {})
    => LET L == list_follow_ups(FALSE)
           a == lastOp.args
       IN  /\ Len(L) = 1
           /\ L[1].id = lastOp.rowId
           /\ L[1].sent = 0
           /\ L[1].message = a.message
           /\ L[1].remind_at = a.remind_at
           /\ a.channel = Absent => L[1].channel = telegram
           /\ a.channel # Absent => L[1].channel = a.channel
           /\ a.contact = Absent =>
                  follow_ups[lastOp.rowId].contact = telegram_user

\* the new row, with the defaults, next to a row already sent
C10_Witness ==
    /\ lastOp.op = "set_follow_up"
    /\ lastOp.rowId = 2
    /\ storeUp
    /\ lastOp.args.contact = Absent /\ lastOp.args.channel = Absent
    /\ 1 \in DOMAIN follow_ups /\ follow_ups[1].sent = 1
    /\ Unsent(follow_ups) = {2}

\* the follow-ups a run selected: unsent at its query and due by the test of
\* the query
Selected(r) == DueIds(r.pre, r.t0)
\* the follow-ups that were due at a run's query: unsent, the instant asked
\* for not after the clock
DueThen(r) == {i \in DOMAIN r.pre : r.pre[i].sent = 0 /\ dueAt[i] <= r.t0}
Ended == lastOp.op = "process_follow_ups"
LogIds(r) == {r.log[k].id : k \in 1..Len(r.log)}
FailedAll(e) == \A k \in 1..Len(e.tries) : ~e.tries[k].ok

\* C1: with set_follow_up calls, at(1) jobs firing and runs of
\* process_due_follow_ups one after the other, no follow-up is delivered more
\* than once in total.
C1_DeliveredAtMostOnce == \A i \in Ids : delivered[i] <= 1

\* C2: with runs of process_due_follow_ups one after the other, each to its
\* end, and no at(1) job, no follow-up is attempted in more than one run.
C2_AttemptedInOneRun == \A i \in Ids : attemptRuns[i] <= 1

\* C4: a run of process_due_follow_ups that returns has set sent = 1 on exactly
\* the follow-ups that were unsent with remind_at <= now at its query, and has
\* left every other row as it was.
C4_MarksExactlyDue ==
    (Ended /\ lastOp.ret # "TypeError")
    => LET r == lastOp.run
       IN  follow_ups = [i \in DOMAIN r.pre |->
                            IF i \in DueThen(r) THEN [r.pre[i] EXCEPT !.sent = 1]
                            ELSE r.pre[i]]

\* C5: a run in which every send for one due follow-up failed still attempts
\* and marks every other follow-up of the batch, marks the failed one, and
\* returns a processed count equal to the number of due follow-ups.
C5_FailureIsolated ==
    (Ended /\ \E k \in 1..Len(lastOp.run.log) : FailedAll(lastOp.run.log[k]))
    => LET r == lastOp.run
       IN  /\ lastOp.ret = "Processed"
           /\ r.processed = Cardinality(Selected(r))
           /\ \A i \in Selected(r) : i \in LogIds(r) /\ follow_ups[i].sent = 1

\* C6: a run whose query cannot reach the store returns a StoreUnavailable
\* error, delivers nothing and marks nothing.
C6_StoreUnavailableReported ==
    (Ended /\ ~storeUp /\ lastOp.run.i = 0)
    => /\ lastOp.ret = "StoreUnavailable"
       /\ lastOp.run.log = <<>>
       /\ follow_ups = lastOp.run.pre

\* C7: with two runs side by side, a run delivers only follow-ups that were
\* unsent at its own query, delivers none twice, and when a run returns every
\* follow-up it selected has sent = 1.
C7_OverlapTolerated ==
    /\ \A p \in Runners : \A k \in 1..Len(run[p].log) :
          LET e == run[p].log[k]
          IN  /\ e.id \in Ids => run[p].pre[e.id].sent = 0
              /\ \A j \in 1..Len(run[p].log) : run[p].log[j].id = e.id => j = k
    /\ Ended => \A i \in Selected(lastOp.run) \cap DOMAIN follow_ups :
                    follow_ups[i].sent = 1

\* C8: with runs one after the other that a crash may end at any point, no
\* follow-up is delivered more than once.
C8_CrashNoRedelivery == ~ \E i \in DOMAIN follow_ups : delivered[i] > 1

\* C11: remind_me called with both in_minutes and at_time fails with a
\* ValidationError and creates no follow_ups row.
C11_BothTimesRejected ==
    [][(lastOp'.op = "remind_me" /\ lastOp'.args.in_minutes.def
        /\ lastOp'.args.at_time.text # Absent)
       => /\ lastOp'.ret = "ValidationError"
          /\ follow_ups' = follow_ups]_vars

\* C12: remind_me called with neither in_minutes nor at_time, or without a
\* message, fails with a ValidationError, does not go on to set_follow_up and
\* creates no follow_ups row.
C12_NoTimeRejected ==
    [][(lastOp'.op = "remind_me"
        /\ \/ lastOp'.args.message = Absent
           \/ ~lastOp'.args.in_minutes.def /\ lastOp'.args.at_time.text = Absent)
       => /\ lastOp'.ret = "ValidationError"
          /\ lastOp'.followUpId = <<>>
          /\ follow_ups' = follow_ups
          /\ seq_follow_ups' = seq_follow_ups
          /\ atq' = atq]_vars
C12_Witness ==
    /\ lastOp.op = "remind_me"
    /\ lastOp.args.message # Absent
    /\ ~lastOp.args.in_minutes.def
    /\ lastOp.args.at_time.text = Absent
    /\ lastOp.ret = "ValidationError"
    /\ follow_ups # <<>>

\* C13: creating a task with a reminder creates one tasks row and one
\* follow_ups row, unsent, whose task_id is the id of the task just created.
C13_ReminderLinkedToTask ==
    (lastOp.op = "create_task" /\ lastOp.rowId # 0)
    => /\ seq_tasks \in DOMAIN tasks
       /\ follow_ups[lastOp.rowId].sent = 0
       /\ follow_ups[lastOp.rowId].task_id = seq_tasks

Items(q) == {q[k] : k \in 1..Len(q)}
Finished == hc.step = "done"

\* C14: a run of the health check sends at most one summary notification; it
\* sends one exactly when FIXED or ISSUES is not empty, and that notification
\* lists every item of both lists.
C14_OneSummary ==
    /\ Len(hc.sent) <= 1
    /\ (hc.version = 2 /\ Finished)
       => /\ Len(hc.sent) = 1 <=> (hc.FIXED # <<>> \/ hc.ISSUES # <<>>)
          /\ \A k \in 1..Len(hc.sent) :
                /\ Items(hc.FIXED) \cup Items(hc.ISSUES) \subseteq Items(hc.sent[k].msg)
                /\ Cardinality({j \in 1..Len(hc.sent[k].tries) :
                                   hc.sent[k].tries[j].ok}) <= 1
C14_Witness ==
    /\ hc.version = 2 /\ Finished
    /\ Len(hc.FIXED) >= 2 /\ Len(hc.ISSUES) >= 2
    /\ Len(hc.sent) = 1

\* C15: the health check returns a non-zero status exactly when ISSUES is not
\* empty at the end of the run; a run that only fixed things and a run that
\* found every probe healthy both return zero.
C15_DegradedIffIssues ==
    Finished => /\ hc.status # 0 <=> hc.ISSUES # <<>>
                /\ hc.ISSUES = <<>> => hc.status = 0
C15_Witness ==
    /\ Finished /\ hc.version = 1
    /\ hc.FIXED # <<>> /\ hc.ISSUES = <<>> /\ hc.status = 0

\* C16: when the remediation command of an unhealthy probe fails, the probe is
\* recorded in ISSUES and not in FIXED, and the run returns a non-zero status.
C16_FailedFixNeedsAttention ==
    Finished => /\ \A item \in hc.failed :
                      item \in Items(hc.ISSUES) /\ item \notin Items(hc.FIXED)
                /\ hc.failed # {} => hc.status # 0

\* C17: whether at(1) takes the job or not, set_follow_up stores the same
\* follow_ups row (unsent) and returns the same result, and a refused job
\* changes no stored row.
C17_TriggerFailureHarmless ==
    [][(lastOp'.op = "set_follow_up" /\ lastOp'.ret # "ValidationError" /\ storeUp)
       => LET yes == SetFollowUpCalc(lastOp'.args, TRUE)
              no == SetFollowUpCalc(lastOp'.args, FALSE)
          IN  /\ follow_ups' = yes.table /\ follow_ups' = no.table
              /\ lastOp'.ret = yes.ret /\ lastOp'.ret = no.ret
              /\ no.ret = "Follow-up Set"
              /\ no.rowId \in DOMAIN follow_ups' /\ follow_ups'[no.rowId].sent = 0
              /\ \A i \in DOMAIN follow_ups : follow_ups'[i] = follow_ups[i]]_vars
C17_Witness ==
    /\ lastOp.op = "set_follow_up" /\ lastOp.ret = "Follow-up Set"
    /\ lastOp.rowId = 1 /\ follow_ups[1].sent = 0
    /\ atq = {}

\* the entries of the runs' logs that name a row of the query
Attempts ==
    UNION {{[row |-> run[p].pre[run[p].log[k].id], tries |-> run[p].log[k].tries] :
               k \in {j \in 1..Len(run[p].log) : run[p].log[j].id \in DOMAIN run[p].pre}} :
           p \in {q \in Runners : run[q].kind = "plugin"}}

\* C18: within one run, delivery of the due follow-ups is attempted in
\* remind_at ascending order, ties broken by id ascending.
C18_RemindAtOrder ==
    \A p \in Runners : \A j, k \in 1..Len(run[p].log) :
        (j < k /\ run[p].log[j].id \in DOMAIN run[p].pre
               /\ run[p].log[k].id \in DOMAIN run[p].pre)
        => LET a == run[p].pre[run[p].log[j].id].remind_at
               b == run[p].pre[run[p].log[k].id].remind_at
           IN  /\ TextLeq(a, b)
               /\ a = b => run[p].log[j].id < run[p].log[k].id

\* C19: for every due follow-up, whatever its channel, a run makes one attempt
\* on the follow-up's channel and, only when that attempt fails, exactly one
\* more on a secondary channel; never more than two.
C19_OneFallback ==
    \A e \in Attempts :
        /\ Len(e.tries) \in 1..2
        /\ e.tries[1].channel = e.row.channel
        /\ e.tries[1].ok => Len(e.tries) = 1
        /\ ~e.tries[1].ok => Len(e.tries) = 2 /\ e.tries[2].channel # e.row.channel

\* C20: the first attempt a run makes for a follow-up is made on the
\* follow-up's stored channel and addressed to its stored contact.
C20_StoredChannelAndContact ==
    \A e \in Attempts :
        e.tries # <<>> => /\ e.tries[1].channel = e.row.channel
                          /\ e.tries[1].target = e.row.contact

C22_RowFrame ==
    [][\A i \in DOMAIN follow_ups :
          IF i \in DOMAIN follow_ups'
          THEN /\ follow_ups'[i].task_id = follow_ups[i].task_id
               /\ follow_ups'[i].contact = follow_ups[i].contact
               /\ follow_ups'[i].channel = follow_ups[i].channel
               /\ follow_ups'[i].message = follow_ups[i].message
               /\ follow_ups'[i].remind_at = follow_ups[i].remind_at
               /\ \/ follow_ups'[i].sent = follow_ups[i].sent
                  \/ follow_ups[i].sent = 0 /\ follow_ups'[i].sent = 1
          ELSE /\ lastOp'.op = "delete_task"
               /\ follow_ups[i].task_id = lastOp'.args.task_id]_vars
C22_Witness ==
    /\ lastOp.op = "delete_task"
    /\ seq_follow_ups = MaxRows
    /\ DOMAIN follow_ups = {2}
    /\ follow_ups[2].task_id = 0
    /\ follow_ups[2].sent = 1


\* the entries of a run's log whose commands hung until the timeout
TimedOut(r) == {k \in 1..Len(r.log) : r.log[k].timedOut}

\* C23: a run of process_due_follow_ups in which a send hung until its timeout
\* has counted that send as a failed delivery, has gone on to every other due
\* follow-up of the batch and has returned its processed count.
C23_HangIsolated ==
    (Ended /\ TimedOut(lastOp.run) # {})
    => LET r == lastOp.run
       IN  /\ \A k \in TimedOut(r) : FailedAll(r.log[k])
           /\ lastOp.ret = "Processed"
           /\ r.processed = Len(r.lines)
           /\ \A i \in Selected(r) : i \in LogIds(r)


\* C24: whatever the stored messages (the row separator or a line break in
\* them included) and whatever the outcomes of the sends, a run of
\* process_due_follow_ups raises nothing: it visits every due follow-up and
\* returns a result.
C24_NeverRaises ==
    Ended => /\ lastOp.ret \in {"Processed", "No due follow-ups"}
             /\ Selected(lastOp.run) \subseteq LogIds(lastOp.run)
             /\ Len(lastOp.run.log) = Len(lastOp.run.lines)


\* the probes a health check has evaluated so far, in order
Probed == [k \in 1..Len(hc.results) |-> hc.results[k].probe]
\* how many times an item stands in a list
Count(list, item) == Cardinality({k \in 1..Len(list) : list[k] = item})

\* C25: a health check evaluates the probes of its checklist in the
\* checklist's order, each once, whatever the earlier probes found; a run that
\* has ended has evaluated all of them; a remediation is run at most once per
\* probe, and its probe is not evaluated again in the run.
C25_EveryProbeOnceInOrder ==
    /\ Len(Probed) <= Len(Checklist(hc.version))
    /\ Probed = SubSeq(Checklist(hc.version), 1, Len(Probed))
    /\ Finished => Probed = Checklist(hc.version)
    /\ \A k \in 1..Len(hc.results) :
          hc.results[k].command
          => /\ Count(Probed, hc.results[k].probe) = 1
             /\ Count(hc.FIXED, ItemOf(hc.results[k].probe)) = 1
C25_Witness ==
    /\ Finished /\ hc.version = 2
    /\ hc.results[1].command /\ hc.results[2].command
    /\ ~hc.results[4].healthy
    /\ hc.results[10].healthy

\* C26: when a health check has ended, every probe it found unhealthy is on
\* exactly one of the lists FIXED and ISSUES, once; no probe it found healthy is
\* on either; and for the channel links, the mail account and the free memory
\* no remediation command was run.
C26_ListsMatchFindings ==
    Finished
    => \A k \in 1..Len(hc.results) :
          LET e == hc.results[k]
              n == Count(hc.FIXED, ItemOf(e.probe))
                   + Count(hc.ISSUES, ItemOf(e.probe))
          IN  /\ n = IF e.healthy THEN 0 ELSE 1
              /\ e.probe \in NoRemediation
                 => /\ ~e.command
                    /\ Count(hc.FIXED, ItemOf(e.probe)) = 0
              /\ e.command => Count(hc.FIXED, ItemOf(e.probe)) = 1
C26_Witness ==
    /\ Finished /\ hc.version = 2
    /\ Len(hc.ISSUES) = 4 /\ Len(hc.FIXED) = 1
    /\ hc.results[7].command


\* C27: the id a set_follow_up call reports is the id of the row it has just
\* inserted, with other rows in the table too, and the at(1) job it registers
\* marks that row.
C27_ReportedIdIsRow ==
    (lastOp.op = "set_follow_up" /\ lastOp.rowId # 0)
    => /\ lastOp.followUpId = <<ToString(lastOp.rowId)>>
       /\ \A j \in atq : j.fu = lastOp.rowId => j.markId = <<ToString(j.fu)>>

\* C29: set_follow_up answers "Follow-up Set" only when its INSERT has put a
\* row into the table.
C29_SuccessOnlyIfInserted ==
    (lastOp.op = "set_follow_up" /\ lastOp.ret = "Follow-up Set")
    => lastOp.rowId \in DOMAIN follow_ups


\* C28: with the store reachable and process_due_follow_ups called again and
\* again, a follow-up that is unsent when the instant asked for has come is
\* in the end marked sent, or removed.
C28_EventuallyMarked ==
    \A i \in Ids :
        (i \in DOMAIN follow_ups /\ follow_ups[i].sent = 0 /\ dueAt[i] <= now)
        ~> (i \notin DOMAIN follow_ups \/ follow_ups[i].sent = 1)


\* the rows a run has marked
MarkedIn(r) == {r.log[k].id : k \in {j \in 1..Len(r.log) : r.log[j].marked}}
OtherKind(kind) == IF kind = "plugin" THEN "shell" ELSE "plugin"

\* C30: a run of either processor that has ended has marked the rows the other
\* processor marks on the same table at the same instant, which are the rows
\* that were unsent with remind_at <= datetime('now'), and has left every
\* other row as it was.
C30_SameRowsMarked ==
    Ended
    => LET r == lastOp.run
       IN  /\ MarkedIn(r) = WouldMark(OtherKind(r.kind), r.pre, r.t0)
           /\ MarkedIn(r) = Selected(r)
           /\ follow_ups = [i \in DOMAIN r.pre |->
                               IF i \in MarkedIn(r) THEN [r.pre[i] EXCEPT !.sent = 1]
                               ELSE r.pre[i]]

====
